---------------------------- MODULE Spec2Model ----------------------------
(***************************************************************************)
(* Model of src/app.py: a Flask application that keeps a per-session list  *)
(* of medications (add_drug / remove_drug / clear_drugs), resolves a       *)
(* searched drug against a formulary service in two stages                 *)
(* (search_drug_info / perform_search / extract_drug_info / safe_extract)  *)
(* and cross-references the interaction text of the resolved records with  *)
(* the medication list (check_contraindications).                          *)
(*                                                                         *)
(* Python strings are modelled as sequences of characters.  A character is *)
(* a TLA+ string: the Latin letters ("a"/"A", "p"/"P", ...) are cased, the *)
(* Hangul syllables of the source's literals are written romanised between *)
(* square brackets ("[ta]" is U+D0C0) and, like digits and punctuation,    *)
(* have no case.  " " is the whitespace character.                         *)
(***************************************************************************)
EXTENDS Integers, Sequences, FiniteSets, TLC

VARIABLES
    SERVICE_KEY,      \* the module global read from DRUG_API_KEY at import
    session,          \* the Flask session: a function whose domain is {} or {"my_drugs"}
    request,          \* the request the last handler served: [op, arg]
    calls,            \* the queries the last request sent to the formulary service
    replies,          \* the service's reply to each of those queries
    drug_info_list,   \* what search_drug_info returned to the last request
    warnings,         \* the warnings the last request computed
    raised            \* TRUE when an exception escaped search_drug_info

vars == <<SERVICE_KEY, session, request, calls, replies, drug_info_list, warnings, raised>>

---------------------------------------------------------------------------
(* Bounds of the model.                                                    *)

\* the longest medication list the model builds (the code has no cap)
MaxDrugs == 2

\* the most items one reply of the service holds
MaxItems == 2

---------------------------------------------------------------------------
(* Python str operations.                                                  *)

\* str.lower() on one character
LowerCh(c) ==
    CASE c = "A" -> "a" [] c = "P" -> "p" [] c = "N" -> "n" [] c = "O" -> "o"
      [] c = "E" -> "e" [] c = "U" -> "u" [] c = "L" -> "l" [] OTHER -> c

\* str.upper() on one character
UpperCh(c) ==
    CASE c = "a" -> "A" [] c = "p" -> "P" [] c = "n" -> "N" [] c = "o" -> "O"
      [] c = "e" -> "E" [] c = "u" -> "U" [] c = "l" -> "L" [] OTHER -> c

\* str.isspace() on one character
IsSpace(c) == c = " "

\* str.lower()
RECURSIVE Lower(_)
Lower(s) == IF s = << >> THEN << >> ELSE <<LowerCh(Head(s))>> \o Lower(Tail(s))

\* str.upper()
RECURSIVE Upper(_)
Upper(s) == IF s = << >> THEN << >> ELSE <<UpperCh(Head(s))>> \o Upper(Tail(s))

\* str.capitalize(): first character upper-cased, the rest lower-cased
Capitalize(s) ==
    IF s = << >> THEN << >> ELSE <<UpperCh(Head(s))>> \o Lower(Tail(s))

\* s[start:end] with 0 <= start, Python's clamping of the two ends
Slice(s, start, end) ==
    LET e == IF end > Len(s) THEN Len(s) ELSE end
    IN  IF start >= e THEN << >> ELSE SubSeq(s, start + 1, e)

\* str.strip(): leading and trailing whitespace removed
Strip(s) ==
    LET keep == {i \in 1..Len(s) : ~IsSpace(s[i])}
    IN  IF keep = {} THEN << >>
        ELSE LET lo == CHOOSE i \in keep : \A j \in keep : i <= j
                 hi == CHOOSE i \in keep : \A j \in keep : j <= i
             IN  SubSeq(s, lo, hi)

\* s.startswith(sub, i) with a 0-based offset i
StartsAt(s, sub, i) ==
    /\ i + Len(sub) <= Len(s)
    /\ \A k \in 1..Len(sub) : s[i + k] = sub[k]

\* sub in s
Contains(s, sub) == \E i \in 0..Len(s) : StartsAt(s, sub, i)

\* s.index(sub): the 0-based offset of the first occurrence; -1 stands for
\* the ValueError str.index raises when there is none
Index(s, sub) ==
    IF Contains(s, sub)
    THEN CHOOSE i \in 0..Len(s) :
            StartsAt(s, sub, i) /\ \A j \in 0..(i - 1) : ~StartsAt(s, sub, j)
    ELSE -1

\* s.replace(old, new) for a non-empty old: the leftmost occurrences,
\* left to right, not overlapping
RECURSIVE Replace(_, _, _)
Replace(s, old, new) ==
    LET i == Index(s, old)
    IN  IF i < 0 THEN s
        ELSE Slice(s, 0, i) \o new
             \o Replace(Slice(s, i + Len(old), Len(s)), old, new)

---------------------------------------------------------------------------
(* Values.                                                                 *)

\* Python's None, and a value that is not None
None == [none |-> TRUE, v |-> << >>]
Some(x) == [none |-> FALSE, v |-> x]

\* a value of a JSON object read with dict.get: the key is absent, the
\* value is null, or the value is a string
Absent == [kind |-> "absent", v |-> << >>]
Null == [kind |-> "null", v |-> << >>]
Str(s) == [kind |-> "str", v |-> s]

---------------------------------------------------------------------------
(* Literals of app.py.                                                     *)

Tylenol == <<"[ta]", "[i]", "[re]", "[nol]">>
Gevorin == <<"[ge]", "[bo]", "[rin]">>
PancolA == <<"[pan]", "[kol]", "[e]", "[i]">>
Aspirin == <<"[a]", "[seu]", "[pi]", "[rin]">>
Ezn6 == <<"[i]", "[ji]", "[en]", "6">>
Brufen == <<"[bu]", "[ru]", "[pen]">>
Acetaminophen == <<"[a]", "[se]", "[teu]", "[a]", "[mi]", "[no]", "[pen]">>
Ibuprofen == <<"[i]", "[bu]", "[peu]", "[ro]", "[pen]">>
Naproxen == <<"[na]", "[peu]", "[rok]", "[sen]">>
Isopropylantipyrine ==
    <<"[i]", "[so]", "[peu]", "[ro]", "[pil]", "[an]", "[ti]", "[pi]", "[rin]">>
AcetylsalicylicAcid ==
    <<"[a]", "[se]", "[til]", "[sal]", "[li]", "[sil]", "[san]">>

\* DRUG_INGREDIENT_MAP as its set of (key, value) pairs
DRUG_INGREDIENT_MAP ==
    { <<Tylenol, Acetaminophen>>,
      <<Gevorin, Isopropylantipyrine>>,
      <<PancolA, Acetaminophen>>,
      <<Aspirin, AcetylsalicylicAcid>>,
      <<Ezn6, Ibuprofen>>,
      <<Brufen, Ibuprofen>>,
      <<Acetaminophen, Acetaminophen>>,
      <<Ibuprofen, Ibuprofen>>,
      <<Naproxen, Naproxen>> }

\* DRUG_INGREDIENT_MAP.get(key, default)
MapGet(key, default) ==
    IF \E e \in DRUG_INGREDIENT_MAP : e[1] = key
    THEN (CHOOSE e \in DRUG_INGREDIENT_MAP : e[1] = key)[2]
    ELSE default

\* DRUG_INGREDIENT_MAP.values()
MapValues == {e[2] : e \in DRUG_INGREDIENT_MAP}

\* the text safe_extract substitutes for a missing field
NO_INFO == <<"[jeong]", "[bo]", " ", "[eop]", "[eum]">>

\* the ingredient add_drug stores for a name that is no key of the map
NO_INGREDIENT ==
    <<"[seong]", "[bun]", " ", "[jeong]", "[bo]", " ", "[eop]", "[eum]">>

\* the two paragraph tags safe_extract removes
P_OPEN == <<"<", "p", ">">>
P_CLOSE == <<"<", "/", "p", ">">>

---------------------------------------------------------------------------
(* The session and the three handlers that change it.                      *)

\* session.get('my_drugs', [])
MyDrugs(sess) == IF "my_drugs" \in DOMAIN sess THEN sess["my_drugs"] ELSE << >>

\* the session with session['my_drugs'] = list
WithMyDrugs(list) == [k \in {"my_drugs"} |-> list]

\* the session without a 'my_drugs' key
NoSession == [k \in {} |-> << >>]

\* add_drug with the duplicate check made on the name as typed, not on the
\* case-folded stored form
add_drug_case_sensitive(sess, raw) ==
    LET drug_to_add == IF raw.none \/ raw.v = << >> THEN << >> ELSE Strip(raw.v)
        my_drugs == MyDrugs(sess)
        new_drug_item ==
            [name |-> Capitalize(drug_to_add),
             ingredient |-> MapGet(Capitalize(drug_to_add), NO_INGREDIENT)]
    IN  IF drug_to_add # << >> /\ drug_to_add \notin {my_drugs[i].name : i \in 1..Len(my_drugs)}
        THEN WithMyDrugs(Append(my_drugs, new_drug_item))
        ELSE WithMyDrugs(my_drugs)

\* add_drug without the strip() of the input
add_drug_no_strip(sess, raw) ==
    LET drug_to_add == IF raw.none THEN << >> ELSE raw.v
        my_drugs == MyDrugs(sess)
        new_drug_item ==
            [name |-> Capitalize(drug_to_add),
             ingredient |-> MapGet(Capitalize(drug_to_add), NO_INGREDIENT)]
        current_drugs_lower == {Lower(my_drugs[i].name) : i \in 1..Len(my_drugs)}
    IN  IF drug_to_add # << >> /\ Lower(new_drug_item.name) \notin current_drugs_lower
        THEN WithMyDrugs(Append(my_drugs, new_drug_item))
        ELSE WithMyDrugs(my_drugs)

\* add_drug storing the name as typed, without capitalize()
add_drug_as_typed(sess, raw) ==
    LET drug_to_add == IF raw.none \/ raw.v = << >> THEN << >> ELSE Strip(raw.v)
        my_drugs == MyDrugs(sess)
        new_drug_item ==
            [name |-> drug_to_add,
             ingredient |-> MapGet(Capitalize(drug_to_add), NO_INGREDIENT)]
        current_drugs_lower == {Lower(my_drugs[i].name) : i \in 1..Len(my_drugs)}
    IN  IF drug_to_add # << >> /\ Lower(new_drug_item.name) \notin current_drugs_lower
        THEN WithMyDrugs(Append(my_drugs, new_drug_item))
        ELSE WithMyDrugs(my_drugs)

\* add_drug's session after POST /add_drug with form field my_drug_name = raw
\* (raw is None when the form has no such field)
add_drug(sess, raw) ==
    LET drug_to_add == IF raw.none \/ raw.v = << >> THEN << >> ELSE Strip(raw.v)
        my_drugs == MyDrugs(sess)
        new_drug_item ==
            [name |-> Capitalize(drug_to_add),
             ingredient |-> MapGet(Capitalize(drug_to_add), NO_INGREDIENT)]
        current_drugs_lower == {Lower(my_drugs[i].name) : i \in 1..Len(my_drugs)}
    IN  IF drug_to_add # << >> /\ Lower(new_drug_item.name) \notin current_drugs_lower
        THEN WithMyDrugs(Append(my_drugs, new_drug_item))
        ELSE WithMyDrugs(my_drugs)

\* urllib.parse.unquote: every %XX escape is replaced by the character it
\* encodes ("%41" is "A", "%20" is " ", "%25" is "%"), in one pass;
\* anything else is kept
RECURSIVE Unquote(_)
Unquote(s) ==
    IF s = << >> THEN << >>
    ELSE IF Len(s) >= 3 /\ s[1] = "%" /\ s[2] = "4" /\ s[3] = "1"
         THEN <<"A">> \o Unquote(Slice(s, 3, Len(s)))
    ELSE IF Len(s) >= 3 /\ s[1] = "%" /\ s[2] = "2" /\ s[3] = "5"
         THEN <<"%">> \o Unquote(Slice(s, 3, Len(s)))
    ELSE IF Len(s) >= 3 /\ s[1] = "%" /\ s[2] = "2" /\ s[3] = "0"
         THEN <<" ">> \o Unquote(Slice(s, 3, Len(s)))
    ELSE <<s[1]>> \o Unquote(Tail(s))

\* remove_drug's session after GET /remove_drug/<drug_name>
remove_drug(sess, drug_name) ==
    LET decoded_drug_name == Unquote(drug_name)
    IN  IF "my_drugs" \in DOMAIN sess
        THEN WithMyDrugs(SelectSeq(sess["my_drugs"],
                 LAMBDA d : Lower(d.name) # Lower(decoded_drug_name)))
        ELSE sess

\* clear_drugs's session after GET /clear_drugs
clear_drugs(sess) == NoSession

---------------------------------------------------------------------------
(* check_contraindications.                                                *)

\* the set my_drug_keywords that the first loop builds
my_drug_keywords(my_drugs) ==
    {Lower(my_drugs[i].name) : i \in {j \in 1..Len(my_drugs) : my_drugs[j].name # << >>}}
    \cup {Lower(my_drugs[i].ingredient) :
            i \in {j \in 1..Len(my_drugs) : Lower(my_drugs[j].ingredient) # NO_INGREDIENT}}

\* the orders in which a for loop may visit the elements of a set: Python
\* fixes one per set object and the code does not choose it
RECURSIVE IterationOrders(_)
IterationOrders(S) ==
    IF S = {} THEN {<< >>}
    ELSE UNION {{<<x>> \o o : o \in IterationOrders(S \ {x})} : x \in S}

\* the emphasis markers
B_OPEN == <<"<", "b", ">">>
B_CLOSE == <<"<", "/", "b", ">">>

\* the label f"등록된 약 (성분: {x})"
LabelPrefix ==
    <<"[deung]", "[rok]", "[doen]", " ", "[yak]", " ", "(", "[seong]", "[bun]", ":", " ">>
ComposedLabel(x) == LabelPrefix \o x \o <<")">>

\* conflict_drug_name with the keyword looked up among the map's keys
conflict_drug_name_keys(keyword) ==
    IF keyword \in {Lower(e[1]) : e \in DRUG_INGREDIENT_MAP}
    THEN ComposedLabel(Upper(keyword))
    ELSE Capitalize(keyword)

\* conflict_drug_name without the ingredient format
conflict_drug_name_plain(keyword) == Capitalize(keyword)

\* conflict_drug_name for the keyword that matched
conflict_drug_name(keyword) ==
    IF keyword \in {Lower(v) : v \in MapValues}
    THEN ComposedLabel(Upper(keyword))
    ELSE Capitalize(keyword)

\* highlighted_info for the keyword that matched: the offsets are those of
\* the keyword in contra_info_lower, the slices are taken from
\* contra_info_original
highlighted_info(contra_info_original, keyword) ==
    LET contra_info_lower == Strip(Lower(contra_info_original))
        start_index == Index(contra_info_lower, keyword)
        end_index == start_index + Len(keyword)
        original_keyword == Slice(contra_info_original, start_index, end_index)
    IN  IF start_index < 0 THEN contra_info_original
        ELSE Slice(contra_info_original, 0, start_index)
             \o B_OPEN \o original_keyword \o B_CLOSE
             \o Slice(contra_info_original, end_index, Len(contra_info_original))

\* record_warnings without the break: every keyword that matches appends
RECURSIVE record_warnings_no_break(_, _)
record_warnings_no_break(searched_drug, order) ==
    LET contra_info_original == searched_drug.interaction
        contra_info_lower == Strip(Lower(contra_info_original))
    IN  IF contra_info_lower = NO_INFO \/ order = << >> THEN << >>
        ELSE (IF Contains(contra_info_lower, Head(order))
              THEN << [searched_drug |-> searched_drug.name,
                       conflict_drug |-> conflict_drug_name(Head(order)),
                       info |-> highlighted_info(contra_info_original, Head(order))] >>
              ELSE << >>)
             \o record_warnings_no_break(searched_drug, Tail(order))

\* record_warnings without the test for the text that stands for no
\* information
RECURSIVE record_warnings_no_sentinel(_, _)
record_warnings_no_sentinel(searched_drug, order) ==
    LET contra_info_original == searched_drug.interaction
        contra_info_lower == Strip(Lower(contra_info_original))
    IN  IF order = << >> THEN << >>
        ELSE IF Contains(contra_info_lower, Head(order))
             THEN << [searched_drug |-> searched_drug.name,
                      conflict_drug |-> conflict_drug_name(Head(order)),
                      info |-> highlighted_info(contra_info_original, Head(order))] >>
             ELSE record_warnings_no_sentinel(searched_drug, Tail(order))

\* what one pass of the outer loop appends to warnings for searched_drug,
\* the inner loop visiting the keywords in the given order and leaving at
\* the first one that matches
RECURSIVE record_warnings(_, _)
record_warnings(searched_drug, order) ==
    LET contra_info_original == searched_drug.interaction
        contra_info_lower == Strip(Lower(contra_info_original))
    IN  IF contra_info_lower = NO_INFO \/ order = << >> THEN << >>
        ELSE IF Contains(contra_info_lower, Head(order))
             THEN << [searched_drug |-> searched_drug.name,
                      conflict_drug |-> conflict_drug_name(Head(order)),
                      info |-> highlighted_info(contra_info_original, Head(order))] >>
             ELSE record_warnings(searched_drug, Tail(order))

\* check_contraindications matching every record against a keyword of the
\* map as well, whatever the medication list holds
RECURSIVE check_contraindications_map_keyword(_, _, _)
check_contraindications_map_keyword(searched_drug_info_list, my_drugs, order) ==
    IF searched_drug_info_list = << >> THEN << >>
    ELSE record_warnings(Head(searched_drug_info_list), order \o <<Lower(Acetaminophen)>>)
         \o check_contraindications_map_keyword(Tail(searched_drug_info_list), my_drugs, order)

\* check_contraindications(searched_drug_info_list, my_drugs), the keyword
\* set being visited in the given order
RECURSIVE check_contraindications(_, _, _)
check_contraindications(searched_drug_info_list, my_drugs, order) ==
    IF my_drugs = << >> \/ searched_drug_info_list = << >> THEN << >>
    ELSE record_warnings(Head(searched_drug_info_list), order)
         \o check_contraindications(Tail(searched_drug_info_list), my_drugs, order)

---------------------------------------------------------------------------
(* The formulary resolver.                                                 *)

\* safe_extract(item, key); value stands for item.get(key), whose string
\* form is the value itself (the service sends strings)
safe_extract(value) ==
    IF value.kind # "str" \/ Lower(value.v) \in {<<"n", "o", "n", "e">>, <<"n", "u", "l", "l">>, << >>}
    THEN NO_INFO
    ELSE Strip(Replace(Replace(value.v, P_OPEN, << >>), P_CLOSE, << >>))

\* extract_drug_info(item, search_term): the record's keys are
\* effect (효과), dosage (투약량), precaution (주의사항),
\* interaction (병용금기), ingredient (성분), name (약품명) and itemSeq
extract_drug_info(item, search_term) ==
    [effect |-> safe_extract(item.efcyQesitm),
     dosage |-> safe_extract(item.useMethodQesitm),
     precaution |-> safe_extract(item.atpnWarnQesitm),
     interaction |-> safe_extract(item.intrcQesitm),
     ingredient |-> safe_extract(item.mainItemIngr),
     name |-> IF item.itemName.kind = "absent" THEN Str(search_term) ELSE item.itemName,
     itemSeq |-> IF item.itemSeq.kind = "absent" THEN Null ELSE item.itemSeq]

\* what a call returns or raises
Returns(x) == [raised |-> FALSE, value |-> x]
Raises == [raised |-> TRUE, value |-> None]

\* the body of perform_search's outer try, for the reply requests.get
\* meets: requests.get or raise_for_status raises, or the body returns
perform_search_try(reply, original_drug_name, multiple_results) ==
    IF reply.transport = "error" THEN Raises
    ELSE IF reply.status >= 400 THEN Raises
    ELSE IF ~reply.parsable THEN Returns(None)
    ELSE IF \/ reply.resultCode \notin {"00", "0"}
            \/ ~reply.hasBody
            \/ ~reply.hasItems
            \/ reply.items = << >>
         THEN Returns(None)
    ELSE IF multiple_results
         THEN Returns(Some([i \in 1..Len(reply.items) |->
                               extract_drug_info(reply.items[i], original_drug_name)]))
         ELSE Returns(Some(<<extract_drug_info(reply.items[1], original_drug_name)>>))

\* perform_search without the outer except
perform_search_uncaught(reply, original_drug_name, multiple_results) ==
    perform_search_try(reply, original_drug_name, multiple_results)

\* perform_search: the outer except turns every exception into None
perform_search(reply, original_drug_name, multiple_results) ==
    LET r == perform_search_try(reply, original_drug_name, multiple_results)
    IN  IF r.raised THEN Returns(None) ELSE r

\* the truth value of a list or None
Truthy(x) == ~x.none /\ x.v # << >>

\* the two queries; both carry serviceKey, type 'json' and numOfRows '3',
\* and the quoted drug name under the key named here
params_item_name == [filter |-> "itemName", numOfRows |-> "3"]
params_ingr_name == [filter |-> "ingrName", numOfRows |-> "3"]

\* search_drug_info sending both queries before it looks at either result
search_drug_info_both(drug_name, key, reply1, reply2) ==
    IF key.none \/ key.v = << >>
    THEN [calls |-> << >>, replies |-> << >>, raised |-> FALSE, value |-> None]
    ELSE LET stage1 == perform_search(reply1, drug_name, TRUE)
             stage2 == perform_search(reply2, drug_name, TRUE)
         IN  [calls |-> <<params_item_name, params_ingr_name>>,
              replies |-> <<reply1, reply2>>,
              raised |-> stage1.raised \/ stage2.raised,
              value |-> IF Truthy(stage1.value) THEN stage1.value
                        ELSE IF Truthy(stage2.value) THEN stage2.value ELSE None]

\* search_drug_info without the test of SERVICE_KEY
search_drug_info_no_key_test(drug_name, key, reply1, reply2) ==
    LET stage1 == perform_search(reply1, drug_name, TRUE)
        stage2 == perform_search(reply2, drug_name, TRUE)
    IN  IF Truthy(stage1.value)
        THEN [calls |-> <<params_item_name>>, replies |-> <<reply1>>,
              raised |-> FALSE, value |-> stage1.value]
        ELSE [calls |-> <<params_item_name, params_ingr_name>>,
              replies |-> <<reply1, reply2>>, raised |-> FALSE,
              value |-> IF Truthy(stage2.value) THEN stage2.value ELSE None]

\* search_drug_info giving up after the first query
search_drug_info_stage_one_only(drug_name, key, reply1, reply2) ==
    IF key.none \/ key.v = << >>
    THEN [calls |-> << >>, replies |-> << >>, raised |-> FALSE, value |-> None]
    ELSE LET stage1 == perform_search(reply1, drug_name, TRUE)
         IN  [calls |-> <<params_item_name>>, replies |-> <<reply1>>,
              raised |-> stage1.raised,
              value |-> IF Truthy(stage1.value) THEN stage1.value ELSE None]

\* search_drug_info(drug_name) with SERVICE_KEY = key, where the service
\* answers the first query with reply1 and the second, if it is sent, with
\* reply2: the queries sent, the replies read, and what the call returns
search_drug_info(drug_name, key, reply1, reply2) ==
    IF key.none \/ key.v = << >>
    THEN [calls |-> << >>, replies |-> << >>, raised |-> FALSE, value |-> None]
    ELSE LET stage1 == perform_search(reply1, drug_name, TRUE)
             stage2 == perform_search(reply2, drug_name, TRUE)
         IN  IF stage1.raised
             THEN [calls |-> <<params_item_name>>, replies |-> <<reply1>>,
                   raised |-> TRUE, value |-> None]
             ELSE IF Truthy(stage1.value)
             THEN [calls |-> <<params_item_name>>, replies |-> <<reply1>>,
                   raised |-> FALSE, value |-> stage1.value]
             ELSE IF stage2.raised
             THEN [calls |-> <<params_item_name, params_ingr_name>>,
                   replies |-> <<reply1, reply2>>, raised |-> TRUE, value |-> None]
             ELSE IF Truthy(stage2.value)
             THEN [calls |-> <<params_item_name, params_ingr_name>>,
                   replies |-> <<reply1, reply2>>, raised |-> FALSE,
                   value |-> stage2.value]
             ELSE [calls |-> <<params_item_name, params_ingr_name>>,
                   replies |-> <<reply1, reply2>>, raised |-> FALSE, value |-> None]

---------------------------------------------------------------------------
(* Inputs.                                                                 *)

\* the sequences of 1..n elements of S
SeqsUpTo(S, n) == UNION {[1..k -> S] : k \in 1..n}

\* my_drug_name of POST /add_drug: no such field, or a string
AddInputs ==
    {None} \cup
    { Some(n) : n \in
        { << >>, <<" ">>, <<"a">>, <<"A">>, <<" ", "a", " ">>, Tylenol,
          <<" ">> \o Tylenol, Isopropylantipyrine, <<"[bo]">> } }

\* drug_name of GET /remove_drug/<drug_name>
RemoveInputs ==
    { <<"a">>, <<"A">>, <<"p">>, <<"%", "4", "1">>, Tylenol,
      Isopropylantipyrine, <<"[bo]">> }

\* DRUG_API_KEY: not set, set to the empty string, set to a key
ServiceKeys == {None, Some(<< >>), Some(<<"k">>)}

\* a raw item of the service with the given itemName and intrcQesitm
Item(itemName, intrcQesitm) ==
    [efcyQesitm |-> Str(P_OPEN \o <<"e">> \o P_CLOSE),
     useMethodQesitm |-> Null,
     atpnWarnQesitm |-> Absent,
     intrcQesitm |-> intrcQesitm,
     mainItemIngr |-> Str(<<"n", "o", "n", "e">>),
     itemName |-> itemName,
     itemSeq |-> Str(<<"1">>)]

\* a reply of the service
Reply(transport, status, parsable, resultCode, hasBody, hasItems, items) ==
    [transport |-> transport, status |-> status, parsable |-> parsable,
     resultCode |-> resultCode, hasBody |-> hasBody, hasItems |-> hasItems,
     items |-> items]

\* a 200 reply with a JSON body, a result code and an items array
Ok(resultCode, items) == Reply("ok", 200, TRUE, resultCode, TRUE, TRUE, items)

TransportFailure == Reply("error", 0, FALSE, "absent", FALSE, FALSE, << >>)
Http404 == Reply("ok", 404, TRUE, "absent", FALSE, FALSE, << >>)
Http500 == Reply("ok", 500, FALSE, "absent", FALSE, FALSE, << >>)
Unparsable == Reply("ok", 200, FALSE, "absent", FALSE, FALSE, << >>)
NoHeader == Reply("ok", 200, TRUE, "absent", TRUE, TRUE, << >>)
NoBody == Reply("ok", 200, TRUE, "00", FALSE, FALSE, << >>)
NoItems == Reply("ok", 200, TRUE, "00", TRUE, FALSE, << >>)
EmptyItems == Ok("00", << >>)

\* a reply with items and a result code that is not a success code
ErrorCode == Ok("99", <<Item(Str(<<"n">>), Str(<<"a">>))>>)

\* the replies that yield no record
FailedReplies ==
    { TransportFailure, Http404, Http500, Unparsable, NoHeader, NoBody, NoItems,
      EmptyItems, ErrorCode }

\* the raw items of the replies
RawItems ==
    { Item(Str(<<"n">>), Str(P_OPEN \o <<"A", "p", " ", "a">> \o P_CLOSE)),
      Item(Absent, Str(<<" ">> \o Tylenol \o <<" ", "A">>)),
      Item(Null, Null),
      Item(Str(<<"o">>), Str(<<"p", " ">> \o Acetaminophen)) }

\* the replies of the resolver's specification
Replies ==
    FailedReplies
    \cup {Ok("00", items) : items \in SeqsUpTo(RawItems, MaxItems)}
    \cup {Ok("0", <<item>>) : item \in RawItems}

\* the search terms: drug_name of POST /
SearchTerms == {<<"p">>}

\* the replies of the application's specification
AppReplies ==
    { TransportFailure,
      EmptyItems,
      Ok("00", <<Item(Str(<<"n">>), Str(P_OPEN \o <<"A", "p", " ", "a">> \o P_CLOSE))>>),
      Ok("0", <<Item(Absent, Str(<<" ">> \o Tylenol \o <<" ", "A">>)),
                Item(Str(<<"o">>), Str(<<"p", " ">> \o Acetaminophen))>>),
      Ok("00", <<Item(Null, Null), Item(Str(<<"n">>), Str(<<"p">>))>>) }

\* a record as extract_drug_info builds it, with the given name and
\* interaction text
Record(name, interaction) ==
    [effect |-> NO_INFO, dosage |-> NO_INFO, precaution |-> NO_INFO,
     interaction |-> interaction, ingredient |-> NO_INFO,
     name |-> Str(name), itemSeq |-> Null]

\* records handed to check_contraindications
MatchRecords ==
    { Record(<<"n">>, <<" ">> \o NO_INFO),
      Record(<<"n">>, <<" ", "A", "p">>),
      Record(<<"o">>, <<"p", " ", "A", " ", "a", " ">> \o NO_INGREDIENT \o <<" ">>),
      Record(<<"n">>, Tylenol \o <<" ">> \o Acetaminophen),
      Record(<<"o">>, <<"p", " ">> \o Acetaminophen),
      Record(<<"o">>, <<"a", " ">> \o Isopropylantipyrine) }

---------------------------------------------------------------------------
(* The application: one action per request handler.                        *)

NoRequest == [op |-> "none", arg |-> None]

Init ==
    /\ SERVICE_KEY \in ServiceKeys
    /\ session = NoSession
    /\ request = NoRequest
    /\ calls = << >>
    /\ replies = << >>
    /\ drug_info_list = None
    /\ warnings = << >>
    /\ raised = FALSE

\* a handler that answers with a redirect: nothing is searched
Redirects ==
    /\ calls' = << >>
    /\ replies' = << >>
    /\ drug_info_list' = None
    /\ warnings' = << >>
    /\ raised' = FALSE
    /\ UNCHANGED SERVICE_KEY

\* POST /add_drug
AddDrug ==
    \E raw \in AddInputs :
        /\ Len(MyDrugs(add_drug(session, raw))) <= MaxDrugs
        /\ session' = add_drug(session, raw)
        /\ request' = [op |-> "add_drug", arg |-> raw]
        /\ Redirects

\* GET /remove_drug/<drug_name>
RemoveDrug ==
    \E drug_name \in RemoveInputs :
        /\ session' = remove_drug(session, drug_name)
        /\ request' = [op |-> "remove_drug", arg |-> Some(drug_name)]
        /\ Redirects

\* GET /clear_drugs
ClearDrugs ==
    /\ session' = clear_drugs(session)
    /\ request' = [op |-> "clear_drugs", arg |-> None]
    /\ Redirects

\* GET /, or POST / without a drug_name or with an empty one: index renders
\* the list and searches nothing
IndexNoSearch ==
    \E r \in {[op |-> "index_get", arg |-> None], [op |-> "index_post", arg |-> None],
              [op |-> "index_post", arg |-> Some(<< >>)]} :
        /\ request' = r
        /\ Redirects
        /\ UNCHANGED session

\* index adding the searched name to the medication list
IndexSearchStoresTerm ==
    \E search_term \in SearchTerms, reply1 \in AppReplies :
    \E found \in {search_drug_info(search_term, SERVICE_KEY, reply1, reply1)} :
        /\ request' = [op |-> "index_post", arg |-> Some(search_term)]
        /\ calls' = found.calls
        /\ replies' = found.replies
        /\ raised' = found.raised
        /\ drug_info_list' = found.value
        /\ warnings' = << >>
        /\ session' = add_drug(session, Some(search_term))
        /\ UNCHANGED SERVICE_KEY

\* POST / with a drug_name: index calls search_drug_info and, when it
\* returns records, check_contraindications.  The service's second reply
\* is drawn only when a second query is sent.
IndexSearch ==
    \E search_term \in SearchTerms, reply1 \in AppReplies :
    \E reply2 \in IF Len(search_drug_info(search_term, SERVICE_KEY, reply1, reply1).calls) < 2
                  THEN {reply1} ELSE AppReplies :
    \E found \in {search_drug_info(search_term, SERVICE_KEY, reply1, reply2)} :
    \E order \in IterationOrders(my_drug_keywords(MyDrugs(session))) :
        /\ request' = [op |-> "index_post", arg |-> Some(search_term)]
        /\ calls' = found.calls
        /\ replies' = found.replies
        /\ raised' = found.raised
        /\ drug_info_list' = found.value
        /\ warnings' = IF ~found.raised /\ Truthy(found.value)
                       THEN check_contraindications(found.value.v, MyDrugs(session), order)
                       ELSE << >>
        /\ UNCHANGED <<SERVICE_KEY, session>>

Next == AddDrug \/ RemoveDrug \/ ClearDrugs \/ IndexNoSearch \/ IndexSearch

Spec == Init /\ [][Next]_vars

---------------------------------------------------------------------------
(* search_drug_info alone, applied once to a drug name and two replies.    *)

ResolveNames == {<< >>, <<"p">>}

Resolve ==
    /\ request = NoRequest
    /\ \E drug_name \in ResolveNames, reply1 \in Replies, reply2 \in Replies :
       \E found \in {search_drug_info(drug_name, SERVICE_KEY, reply1, reply2)} :
            /\ request' = [op |-> "search_drug_info", arg |-> Some(drug_name)]
            /\ calls' = found.calls
            /\ replies' = found.replies
            /\ raised' = found.raised
            /\ drug_info_list' = found.value
            /\ UNCHANGED <<SERVICE_KEY, session, warnings>>

SpecResolve == Init /\ [][Resolve]_vars

---------------------------------------------------------------------------
(* check_contraindications alone, applied once to a list of records and a  *)
(* medication list that add_drug built.                                    *)

\* the session after the POST /add_drug requests with the given fields
RECURSIVE AddAll(_, _)
AddAll(sess, raws) ==
    IF raws = << >> THEN sess ELSE AddAll(add_drug(sess, Head(raws)), Tail(raws))

\* the sessions that up to MaxDrugs POST /add_drug requests leave
BuiltSessions ==
    {AddAll(NoSession, raws) : raws \in {<< >>} \cup SeqsUpTo(AddInputs, MaxDrugs)}

InitMatch ==
    /\ SERVICE_KEY = None
    /\ session \in BuiltSessions
    /\ request = NoRequest
    /\ calls = << >>
    /\ replies = << >>
    /\ drug_info_list = None
    /\ warnings = << >>
    /\ raised = FALSE

Match ==
    /\ request = NoRequest
    /\ \E records \in {<< >>} \cup SeqsUpTo(MatchRecords, MaxItems) :
       \E order \in IterationOrders(my_drug_keywords(MyDrugs(session))) :
            /\ request' = [op |-> "check_contraindications", arg |-> None]
            /\ drug_info_list' = Some(records)
            /\ warnings' = check_contraindications(records, MyDrugs(session), order)
            /\ UNCHANGED <<SERVICE_KEY, session, calls, replies, raised>>

SpecMatch == InitMatch /\ [][Match]_vars

---------------------------------------------------------------------------
(* extract_drug_info alone, applied once to the item of a reply and a      *)
(* search term.                                                            *)

\* the values item.get(key) has for a textual field
FieldValues ==
    { Absent, Null, Str(<< >>),
      Str(<<"n", "o", "n", "e">>), Str(<<"N", "o", "n", "e">>),
      Str(<<"N", "U", "L", "L">>),
      Str(<<" ">>),
      Str(P_OPEN \o P_CLOSE),
      Str(P_OPEN \o <<"a">> \o P_CLOSE),
      Str(<<" ", "a", " ", "p", " ">>),
      Str(P_OPEN \o <<" ", "a">> \o P_CLOSE \o P_OPEN \o <<"p", " ">> \o P_CLOSE),
      Str(<<"<">> \o P_OPEN \o <<"p", ">">>),
      Str(<<"<", "/">> \o P_OPEN \o <<"p", ">", "a">>),
      Str(P_OPEN \o <<"n", "u", "l", "l">> \o P_CLOSE) }

\* the values item.get('itemName') has
NameValues == {Absent, Null, Str(<<"n">>)}

\* the raw items: every textual field takes every value
ExtractItems ==
    { [efcyQesitm |-> a, useMethodQesitm |-> b, atpnWarnQesitm |-> a,
       intrcQesitm |-> b, mainItemIngr |-> a, itemName |-> n,
       itemSeq |-> Absent] :
        a \in FieldValues, b \in FieldValues, n \in NameValues }

\* the search terms handed on as original_drug_name
ExtractTerms == {<<"p">>, <<"o">>}

\* the item extract_drug_info is applied to: the first of the reply read
RawItem == replies[1].items[1]

InitExtract ==
    /\ SERVICE_KEY = Some(<<"k">>)
    /\ session = NoSession
    /\ request = NoRequest
    /\ calls = <<params_item_name>>
    /\ replies \in {<<Ok("00", <<item>>)>> : item \in ExtractItems}
    /\ drug_info_list = None
    /\ warnings = << >>
    /\ raised = FALSE

Extract ==
    /\ request = NoRequest
    /\ \E search_term \in ExtractTerms :
            /\ request' = [op |-> "extract_drug_info", arg |-> Some(search_term)]
            /\ drug_info_list' = Some(<<extract_drug_info(RawItem, search_term)>>)
            /\ UNCHANGED <<SERVICE_KEY, session, calls, replies, warnings, raised>>

SpecExtract == InitExtract /\ [][Extract]_vars

---------------------------------------------------------------------------
(* remove_drug alone, applied once to a medication list that add_drug      *)
(* built.                                                                  *)

\* the longest list remove_drug is applied to
MaxListed == 3

\* my_drug_name of the POST /add_drug requests that build the list
ListedInputs ==
    { Some(<<"a">>), Some(<<"%", "4", "1">>), Some(Tylenol), Some(<<"p">>) }

\* drug_name of GET /remove_drug/<drug_name>, as the route hands it over
RemoveArgs ==
    { <<"a">>, <<"A">>, <<"P">>, <<"%", "4", "1">>, <<"%", "2", "5", "4", "1">>,
      Tylenol, <<"n">> }

InitRemove ==
    /\ SERVICE_KEY = None
    /\ session \in {AddAll(NoSession, raws) :
                        raws \in {<< >>} \cup SeqsUpTo(ListedInputs, MaxListed)}
    /\ request = NoRequest
    /\ calls = << >>
    /\ replies = << >>
    /\ drug_info_list = None
    /\ warnings = << >>
    /\ raised = FALSE

Remove ==
    /\ request = NoRequest
    /\ \E drug_name \in RemoveArgs :
            /\ session' = remove_drug(session, drug_name)
            /\ request' = [op |-> "remove_drug", arg |-> Some(drug_name)]
            /\ UNCHANGED <<SERVICE_KEY, calls, replies, drug_info_list, warnings, raised>>

SpecRemove == InitRemove /\ [][Remove]_vars

---------------------------------------------------------------------------
(* Properties.                                                             *)

\* the medication list and the records of the state
StoredDrugs == MyDrugs(session)
SearchedRecords == drug_info_list.v

\* a is b with some of its elements left out
RECURSIVE IsSubsequence(_, _)
IsSubsequence(a, b) ==
    IF a = << >> THEN TRUE
    ELSE IF b = << >> THEN FALSE
    ELSE IF Head(a) = Head(b) THEN IsSubsequence(Tail(a), Tail(b))
    ELSE IsSubsequence(a, Tail(b))

\* the keywords of a medication list: the case-folded non-empty names and
\* the case-folded ingredients that are known
KeywordsOf(my_drugs) ==
    LET entries == {my_drugs[i] : i \in 1..Len(my_drugs)}
    IN  {Lower(d.name) : d \in {e \in entries : e.name # << >>}}
        \cup {Lower(d.ingredient) : d \in {e \in entries : e.ingredient # NO_INGREDIENT}}

\* keyword is a case-insensitive substring of text
Occurs(keyword, text) == Contains(Lower(text), keyword)

\* text with the n characters at offset at wrapped in <b>...</b>
Wrapped(text, at, n) ==
    Slice(text, 0, at) \o B_OPEN \o Slice(text, at, at + n) \o B_CLOSE
    \o Slice(text, at + n, Len(text))

\* s with its first character upper-cased and the rest as it is
FirstUpper(s) == IF s = << >> THEN << >> ELSE <<UpperCh(Head(s))>> \o Tail(s)

\* keyword case-insensitively equals an ingredient of the map
IsMapIngredient(keyword) == \E v \in MapValues : Lower(v) = Lower(keyword)

\* label has the form of ComposedLabel
IsComposed(label) ==
    /\ Len(label) > Len(LabelPrefix)
    /\ SubSeq(label, 1, Len(LabelPrefix)) = LabelPrefix
    /\ label[Len(label)] = ")"

\* C1: the stored medication list never holds two entries whose
\* case-folded names are equal.
UniqueFoldedNames ==
    \A i, j \in 1..Len(StoredDrugs) :
        i # j => Lower(StoredDrugs[i].name) # Lower(StoredDrugs[j].name)

\* C1 witness: an add of a name that the first of two entries already has.
DuplicateAddServed ==
    /\ request.op = "add_drug"
    /\ ~request.arg.none
    /\ Len(StoredDrugs) = 2
    /\ Lower(Strip(request.arg.v)) = Lower(StoredDrugs[1].name)

\* C2: an add whose trimmed, case-folded input equals the case-folded name
\* of an entry of the list leaves the list as it was.
AddOfStoredNameKeepsList ==
    [][ ( /\ request'.op = "add_drug"
          /\ ~request'.arg.none
          /\ \E i \in 1..Len(StoredDrugs) :
                Lower(StoredDrugs[i].name) = Lower(Strip(request'.arg.v)) )
        => MyDrugs(session') = StoredDrugs ]_vars

\* C2 witness: an add, typed with other case or with whitespace around it,
\* of the name of an entry that was in the list before.
RespelledAddServed ==
    /\ request.op = "add_drug"
    /\ ~request.arg.none
    /\ Len(StoredDrugs) = 2
    /\ request.arg.v # StoredDrugs[1].name
    /\ Strip(request.arg.v) # request.arg.v
    /\ Lower(Strip(request.arg.v)) = Lower(StoredDrugs[1].name)

\* the records a reply yields for a drug name
StageRecords(reply, drug_name) ==
    IF reply \in FailedReplies THEN << >>
    ELSE [i \in 1..Len(reply.items) |-> extract_drug_info(reply.items[i], drug_name)]

\* C3: the ingredient-name query is sent only second, after a trade-name
\* query whose reply yielded no record; when the trade-name reply yields a
\* record it is the only query and its records are the result.
StageTwoOnlyAfterEmptyStageOne ==
    request.op = "search_drug_info" =>
        /\ Len(calls) <= 2
        /\ Len(replies) = Len(calls)
        /\ calls # << >> => calls[1].filter = "itemName"
        /\ \A i \in 1..Len(calls) :
              calls[i].filter = "ingrName" => i = 2 /\ replies[1] \in FailedReplies
        /\ (calls # << >> /\ replies[1] \notin FailedReplies) =>
              /\ Len(calls) = 1
              /\ drug_info_list = Some(StageRecords(replies[1], request.arg.v))

\* C3 witness: a trade-name query that yielded two records.
StageOneFound ==
    /\ request.op = "search_drug_info"
    /\ Len(calls) = 1
    /\ replies[1] \notin FailedReplies
    /\ ~drug_info_list.none
    /\ Len(drug_info_list.v) = 2

\* C4: when no reply read yields a record, whatever the failures are, the
\* result is None and no exception leaves search_drug_info.
NoRecordIsNotFound ==
    ( /\ request.op = "search_drug_info"
      /\ calls # << >>
      /\ \A i \in 1..Len(replies) : replies[i] \in FailedReplies )
    => (drug_info_list = None /\ ~raised)

\* C4 witness: a transport failure followed by an unparsable body.
BothStagesFailed ==
    /\ request.op = "search_drug_info"
    /\ replies = <<TransportFailure, Unparsable>>
    /\ drug_info_list = None

\* C5: without a credential no query is sent, the result is None and the
\* request has no warnings.
NoCredentialNoQuery ==
    (SERVICE_KEY.none \/ SERVICE_KEY.v = << >>) =>
        (calls = << >> /\ drug_info_list = None /\ warnings = << >>)

\* C5 witness: a search served without a credential, the list not empty.
SearchWithoutCredential ==
    /\ request.op = "index_post"
    /\ ~request.arg.none
    /\ request.arg.v # << >>
    /\ SERVICE_KEY.none
    /\ StoredDrugs # << >>

\* C6: the searched_drug values of the warnings are a subsequence of the
\* names of the records: at most one warning per record, in record order.
WarningsFollowRecords ==
    request.op = "check_contraindications" =>
        IsSubsequence([i \in 1..Len(warnings) |-> warnings[i].searched_drug],
                      [i \in 1..Len(SearchedRecords) |-> SearchedRecords[i].name])

\* C6 witness: two records with different names, each with a warning, the
\* first one holding two keywords of the list.
TwoKeywordsOneWarning ==
    /\ request.op = "check_contraindications"
    /\ Len(SearchedRecords) = 2
    /\ Len(warnings) = 2
    /\ SearchedRecords[1].name # SearchedRecords[2].name
    /\ Cardinality({k \in KeywordsOf(StoredDrugs) :
                        Occurs(k, SearchedRecords[1].interaction)}) = 2

\* a record for which the claim expects a warning
ShouldWarn(record, my_drugs) ==
    /\ Strip(Lower(record.interaction)) # NO_INFO
    /\ \E k \in KeywordsOf(my_drugs) : Occurs(k, record.interaction)

\* C7: for a non-empty list, the records with a warning are exactly those
\* whose text is not the sentinel and holds a keyword of the list.
WarningIffKeywordOccurs ==
    (request.op = "check_contraindications" /\ StoredDrugs # << >>) =>
        LET expected == SelectSeq(SearchedRecords, LAMBDA r : ShouldWarn(r, StoredDrugs))
        IN  /\ Len(warnings) = Len(expected)
            /\ \A i \in 1..Len(expected) : warnings[i].searched_drug = expected[i].name

\* C7 witness: a sentinel text that holds a keyword of the list and has no
\* warning, before a record that has one.
SentinelSkipped ==
    /\ request.op = "check_contraindications"
    /\ Len(SearchedRecords) = 2
    /\ Strip(Lower(SearchedRecords[1].interaction)) = NO_INFO
    /\ \E k \in KeywordsOf(StoredDrugs) : Occurs(k, SearchedRecords[1].interaction)
    /\ Len(warnings) = 1
    /\ warnings[1].searched_drug = SearchedRecords[2].name

\* C8: info is the interaction text with the first case-insensitive
\* occurrence of the matched keyword, in its original case, between <b> and
\* </b>, for every interaction text.
HighlightWrapsFirstOccurrence ==
    request.op = "check_contraindications" =>
        \A i \in 1..Len(warnings) :
            \E j \in 1..Len(SearchedRecords), k \in KeywordsOf(StoredDrugs) :
                /\ SearchedRecords[j].name = warnings[i].searched_drug
                /\ Occurs(k, SearchedRecords[j].interaction)
                /\ warnings[i].info =
                      Wrapped(SearchedRecords[j].interaction,
                              Index(Lower(SearchedRecords[j].interaction), k), Len(k))

\* the label the claim gives a keyword
LabelOf(keyword) ==
    IF IsMapIngredient(keyword) THEN ComposedLabel(Upper(keyword)) ELSE FirstUpper(keyword)

\* C9: conflict_drug is the composed label of the upper-cased keyword when
\* the keyword equals an ingredient of the map, else the keyword with its
\* first letter upper-cased; the list [Tylenol/Acetaminophen] and a text
\* that names acetaminophen give one warning with the composed label.
LabelFollowsIngredientMap ==
    request.op = "check_contraindications" =>
        /\ \A i \in 1..Len(warnings) :
              \E j \in 1..Len(SearchedRecords), k \in KeywordsOf(StoredDrugs) :
                  /\ SearchedRecords[j].name = warnings[i].searched_drug
                  /\ Occurs(k, SearchedRecords[j].interaction)
                  /\ warnings[i].conflict_drug = LabelOf(k)
        /\ ( /\ StoredDrugs = <<[name |-> Tylenol, ingredient |-> Acetaminophen]>>
             /\ SearchedRecords = <<Record(<<"o">>, <<"p", " ">> \o Acetaminophen)>> )
           => /\ Len(warnings) = 1
              /\ warnings[1].conflict_drug = ComposedLabel(Acetaminophen)

\* C9 witness: the example of the claim.
AcetaminophenExample ==
    /\ request.op = "check_contraindications"
    /\ StoredDrugs = <<[name |-> Tylenol, ingredient |-> Acetaminophen]>>
    /\ SearchedRecords = <<Record(<<"o">>, <<"p", " ">> \o Acetaminophen)>>
    /\ Len(warnings) = 1

\* the case-folded ingredients stored in a list
StoredIngredients(my_drugs) ==
    {Lower(my_drugs[i].ingredient) :
        i \in {j \in 1..Len(my_drugs) : my_drugs[j].ingredient # NO_INGREDIENT}}

\* warning w of the state comes from keyword k: k occurs in the text of a
\* record of that name and the label is one of the two forms of k
ComesFrom(w, k) ==
    /\ \E j \in 1..Len(SearchedRecords) :
          /\ SearchedRecords[j].name = w.searched_drug
          /\ Occurs(k, SearchedRecords[j].interaction)
    /\ w.conflict_drug \in {ComposedLabel(Upper(k)), FirstUpper(k)}

\* C10 as stated: the label is composed exactly when the matched keyword is
\* the stored ingredient of an entry, and is the entry's name otherwise.
ComposedIffStoredIngredient ==
    request.op = "check_contraindications" =>
        \A i \in 1..Len(warnings) :
            \E k \in KeywordsOf(StoredDrugs) :
                /\ ComesFrom(warnings[i], k)
                /\ IsComposed(warnings[i].conflict_drug)
                      <=> k \in StoredIngredients(StoredDrugs)
                /\ k \notin StoredIngredients(StoredDrugs) =>
                      \E n \in 1..Len(StoredDrugs) :
                          StoredDrugs[n].name = warnings[i].conflict_drug

\* C10 as amended: the label is composed exactly when the matched keyword
\* equals an ingredient of the map, which every stored ingredient does and
\* the name of an entry may; otherwise the label is the entry's name.
ComposedIffMapIngredient ==
    request.op = "check_contraindications" =>
        \A i \in 1..Len(warnings) :
            \E k \in KeywordsOf(StoredDrugs) :
                /\ ComesFrom(warnings[i], k)
                /\ IsComposed(warnings[i].conflict_drug) <=> IsMapIngredient(k)
                /\ k \in StoredIngredients(StoredDrugs) =>
                      IsComposed(warnings[i].conflict_drug)
                /\ ~IsMapIngredient(k) =>
                      \E n \in 1..Len(StoredDrugs) :
                          /\ StoredDrugs[n].name = warnings[i].conflict_drug
                          /\ Lower(StoredDrugs[n].name) = k

\* C10 witness: a composed label for a keyword that is the name of the only
\* entry, whose ingredient is unknown.
NameLabelledAsIngredient ==
    /\ request.op = "check_contraindications"
    /\ StoredDrugs = <<[name |-> Isopropylantipyrine, ingredient |-> NO_INGREDIENT]>>
    /\ Len(warnings) = 1
    /\ warnings[1].conflict_drug = ComposedLabel(Isopropylantipyrine)


---------------------------------------------------------------------------
(* The record extract_drug_info builds.                                    *)

\* the record of the state, and its five textual fields each with the raw
\* value it was read from
ExtractedRecord == drug_info_list.v[1]
TextFields ==
    { <<RawItem.efcyQesitm, ExtractedRecord.effect>>,
      <<RawItem.useMethodQesitm, ExtractedRecord.dosage>>,
      <<RawItem.atpnWarnQesitm, ExtractedRecord.precaution>>,
      <<RawItem.intrcQesitm, ExtractedRecord.interaction>>,
      <<RawItem.mainItemIngr, ExtractedRecord.ingredient>> }

\* C11: every textual field of the record holds neither "<p>" nor "</p>"
\* and has no leading or trailing whitespace (a field is a string by
\* construction).
TextFieldsAreClean ==
    request.op = "extract_drug_info" =>
        \A f \in TextFields :
            /\ ~Contains(f[2], P_OPEN)
            /\ ~Contains(f[2], P_CLOSE)
            /\ Strip(f[2]) = f[2]

\* a raw value that is absent, null, or whose string form is "none",
\* "null" or empty when case is ignored
IsNullLike(value) ==
    \/ value.kind \in {"absent", "null"}
    \/ Lower(value.v) \in {<<"n", "o", "n", "e">>, <<"n", "u", "l", "l">>, << >>}

\* C12: a textual field is the "no information" text whenever its raw
\* value is null-like, and it is never the empty string.
FieldIsSentinelOrText ==
    request.op = "extract_drug_info" =>
        \A f \in TextFields :
            /\ IsNullLike(f[1]) => f[2] = NO_INFO
            /\ f[2] # << >>

\* C16: the record's name is the item's name when the item has one that
\* is a string, and the search term when the name is absent or null.
RecordNameIsNameOrTerm ==
    request.op = "extract_drug_info" =>
        ExtractedRecord.name =
            IF RawItem.itemName.kind = "str" THEN RawItem.itemName
            ELSE Str(request.arg.v)

---------------------------------------------------------------------------
(* The medication list.                                                    *)

\* C13: after remove(name) the list is the list before without the entries
\* whose case-folded name is the case-folded argument: no such entry is
\* left, every other entry stays in its place, and a name that is not in
\* the list changes nothing.
RemoveIsExact ==
    [][request'.op = "remove_drug" =>
          LET name == request'.arg.v
          IN  MyDrugs(session') =
                  SelectSeq(MyDrugs(session), LAMBDA d : Lower(d.name) # Lower(name))]_vars

\* the session holds no medication: no list, or an empty one
ListIsEmpty == "my_drugs" \notin DOMAIN session \/ session["my_drugs"] = << >>

\* C14: a search served while the medication list is empty has no
\* warnings, whatever records it found.
EmptyListNoWarnings ==
    (request.op = "index_post" /\ ListIsEmpty) => warnings = << >>

\* C14 witness: a search that found a record with an interaction text
\* naming a map ingredient, served when the list had been emptied.
EmptyListSearchFound ==
    /\ request.op = "index_post"
    /\ "my_drugs" \in DOMAIN session
    /\ session["my_drugs"] = << >>
    /\ Truthy(drug_info_list)
    /\ \E i \in 1..Len(drug_info_list.v) :
          Contains(drug_info_list.v[i].interaction, Acetaminophen)

\* the replies of a query that failed in transport, with a status that
\* is not 2xx, or with a body that is not JSON
StageFailures == {TransportFailure, Http404, Http500, Unparsable}

\* C15: when the first query fails in transport or its body cannot be
\* parsed, the second query is still sent, nothing is raised, and when
\* the second reply yields records they are the result.
StageOneFailureAdvances ==
    ( /\ request.op = "search_drug_info"
      /\ calls # << >>
      /\ replies[1] \in StageFailures )
    => /\ calls = <<params_item_name, params_ingr_name>>
       /\ Len(replies) = 2
       /\ ~raised
       /\ replies[2] \notin FailedReplies =>
             drug_info_list = Some(StageRecords(replies[2], request.arg.v))

\* C15 witness: a status 500 on the first query and two records from the
\* second.
FailureThenRecords ==
    /\ request.op = "search_drug_info"
    /\ Len(replies) = 2
    /\ replies[1] = Http500
    /\ replies[2] \notin FailedReplies
    /\ Truthy(drug_info_list)
    /\ Len(drug_info_list.v) = 2

\* C17: every stored entry has a name that is not empty and is its own
\* capitalized form, and the ingredient the map has for that name, or the
\* "ingredient unknown" text when the name is no key of the map.
StoredEntriesCanonical ==
    \A i \in 1..Len(StoredDrugs) :
        /\ StoredDrugs[i].name # << >>
        /\ StoredDrugs[i].name = Capitalize(StoredDrugs[i].name)
        /\ StoredDrugs[i].ingredient = MapGet(StoredDrugs[i].name, NO_INGREDIENT)

\* C17 witness: a key of the map stored with its ingredient, and a name
\* typed in lower case stored capitalized with the "ingredient unknown"
\* text.
CanonicalEntriesStored ==
    /\ request.op = "add_drug"
    /\ request.arg \in {Some(<<"a">>), Some(<<" ", "a", " ">>)}
    /\ Len(StoredDrugs) = 2
    /\ StoredDrugs[1] = [name |-> Tylenol, ingredient |-> Acetaminophen]
    /\ StoredDrugs[2] = [name |-> <<"A">>, ingredient |-> NO_INGREDIENT]

\* C18: a request to index, with or without a search and whatever the
\* search ends in, leaves the session as it was; so the list changes only
\* in add_drug, remove_drug and clear_drugs.
SearchKeepsList ==
    [][ /\ request'.op \in {"index_get", "index_post"} => session' = session
        /\ MyDrugs(session') # MyDrugs(session) =>
              request'.op \in {"add_drug", "remove_drug", "clear_drugs"} ]_vars

\* C18 witness: a search that found records and warned, the list of two
\* entries still stored.
SearchServedWithList ==
    /\ request.op = "index_post"
    /\ Truthy(drug_info_list)
    /\ warnings # << >>
    /\ Len(StoredDrugs) = 2

====
